---------------------------- MODULE Spec2Model ----------------------------
(***************************************************************************)
(* WardenCalculator (src/calculator.py): the configuration store           *)
(* (ConfigManager), the history store (SaveManager) and the action         *)
(* dispatcher (CalculatorMethods.process) driven by the loop of Main.      *)
(*                                                                         *)
(* Text is modelled as sequences of one-character strings, so that         *)
(* str.lower, str.split, str.isalpha, str.strip, str.replace,              *)
(* str.capitalize and float() are computed character by character.         *)
(* Numbers are exact rationals [n, d]; the rounding of binary floating     *)
(* point, exponents, "inf"/"nan" and digit separators are not modelled.    *)
(* sin, cos, tan and sqrt are kept symbolic: the result records the        *)
(* function and its argument.                                              *)
(***************************************************************************)
EXTENDS Integers, Sequences, FiniteSets, TLC

VARIABLES
    pc,        \* where the program is: boot, configured, ready, stopped, faulted
    cfgFile,   \* calc_data/settings.ini on disk
    config,    \* ConfigManager.__config, the in-memory ConfigParser
    saveFile,  \* the history file at SaveManager.__path
    outcome,   \* what the last CalculatorMethods.process call did
    ret,       \* the last direct call of a SaveManager method and what it returned
    probe,     \* the last pair of __ensureoption calls and what they returned
    cfgBefore, \* settings.ini as the last ConfigManager() found it (ghost)
    shadow,    \* the entries the history is expected to hold (ghost)
    cleared    \* TRUE from a clear() until the next successful saveaction (ghost)

vars == <<pc, cfgFile, config, saveFile, outcome, ret, probe, cfgBefore, shadow, cleared>>

\* ------------------------------------------------------------------ bounds

\* process saves a value only while the history holds fewer entries than this.
MaxHist == 2

\* saveaction is called directly only while the history holds fewer entries than this.
MaxStore == 3

\* getentries is called with every number in -MaxN .. MaxN.
MaxN == 3

\* ------------------------------------------------------------------- text

UpperChars == <<"A","B","C","D","E","F","G","H","I","J","K","L","M",
                "N","O","P","Q","R","S","T","U","V","W","X","Y","Z">>

LowerChars == <<"a","b","c","d","e","f","g","h","i","j","k","l","m",
                "n","o","p","q","r","s","t","u","v","w","x","y","z">>

DigitChars == <<"0","1","2","3","4","5","6","7","8","9">>

SpaceChars == {" ", "\t", "\n"}

IndexIn(seq, c) == CHOOSE i \in 1..Len(seq) : seq[i] = c

IsIn(seq, c) == \E i \in 1..Len(seq) : seq[i] = c

UpperSet == {UpperChars[i] : i \in 1..Len(UpperChars)}

LowerSet == {LowerChars[i] : i \in 1..Len(LowerChars)}

Letters == UpperSet \cup LowerSet

\* each upper-case letter's lower-case letter, and the reverse
ToLower == [c \in UpperSet |-> LowerChars[IndexIn(UpperChars, c)]]

ToUpper == [c \in LowerSet |-> UpperChars[IndexIn(LowerChars, c)]]

LowerChar(c) == IF c \in UpperSet THEN ToLower[c] ELSE c

UpperChar(c) == IF c \in LowerSet THEN ToUpper[c] ELSE c

\* str.lower()
lower(s) == [i \in 1..Len(s) |-> LowerChar(s[i])]

\* str.capitalize(): first character upper-cased, the rest lower-cased
capitalize(s) == [i \in 1..Len(s) |-> IF i = 1 THEN UpperChar(s[1]) ELSE LowerChar(s[i])]

\* str.isalpha(): non-empty and every character a letter
isalpha(s) == Len(s) > 0 /\ \A i \in 1..Len(s) : s[i] \in Letters

\* str.replace(c, ''): every occurrence of the character removed
RemoveChar(s, c) == SelectSeq(s, LAMBDA x : x # c)

RECURSIVE LStrip(_)
LStrip(s) == IF Len(s) > 0 /\ s[1] \in SpaceChars THEN LStrip(Tail(s)) ELSE s

RECURSIVE RStrip(_)
RStrip(s) == IF Len(s) > 0 /\ s[Len(s)] \in SpaceChars THEN RStrip(SubSeq(s, 1, Len(s) - 1)) ELSE s

\* str.strip()
strip(s) == RStrip(LStrip(s))

RECURSIVE SplitFrom(_, _, _, _)
SplitFrom(s, i, cur, acc) ==
    IF i > Len(s) THEN Append(acc, cur)
    ELSE IF s[i] = " " THEN SplitFrom(s, i + 1, <<>>, Append(acc, cur))
    ELSE SplitFrom(s, i + 1, Append(cur, s[i]), acc)

\* str.split(' '): cut at every single space; "" gives [""], "a  b" gives ["a","","b"]
split(s) == SplitFrom(s, 1, <<>>, <<>>)

\* ---------------------------------------------------------------- numbers

Abs(x) == IF x < 0 THEN -x ELSE x

RECURSIVE Gcd(_, _)
Gcd(a, b) == IF b = 0 THEN a ELSE Gcd(b, a % b)

\* the rational n/d in lowest terms with a positive denominator (d # 0)
Rat(n, d) ==
    LET g == Gcd(Abs(n), Abs(d))
        s == IF d < 0 THEN -1 ELSE 1
    IN  [n |-> (s * n) \div g, d |-> (s * d) \div g]

RECURSIVE Pow10(_)
Pow10(k) == IF k = 0 THEN 1 ELSE 10 * Pow10(k - 1)

RECURSIVE DigitsValue(_)
DigitsValue(s) ==
    IF Len(s) = 0 THEN 0
    ELSE 10 * DigitsValue(SubSeq(s, 1, Len(s) - 1)) + (IndexIn(DigitChars, s[Len(s)]) - 1)

AllDigits(s) == \A i \in 1..Len(s) : IsIn(DigitChars, s[i])

\* float(token): surrounding whitespace stripped, an optional sign, then digits
\* with at most one decimal point and at least one digit; anything else raises
\* ValueError.  [ok, val]
float(token) ==
    LET t    == strip(token)
        sgn  == IF Len(t) > 0 /\ t[1] = "-" THEN -1 ELSE 1
        body == IF Len(t) > 0 /\ t[1] \in {"+", "-"} THEN Tail(t) ELSE t
        dots == {i \in 1..Len(body) : body[i] = "."}
        dot  == IF dots = {} THEN Len(body) + 1 ELSE CHOOSE i \in dots : TRUE
        ip   == SubSeq(body, 1, dot - 1)
        fp   == SubSeq(body, dot + 1, Len(body))
        good == /\ Cardinality(dots) <= 1
                /\ AllDigits(ip) /\ AllDigits(fp)
                /\ Len(ip) + Len(fp) > 0
    IN  IF good
        THEN [ok |-> TRUE, val |-> Rat(sgn * DigitsValue(ip \o fp), Pow10(Len(fp)))]
        ELSE [ok |-> FALSE, val |-> Rat(0, 1)]


\* ----------------------------------------------------------- ConfigManager

Options == {"showhistory", "savepath", "showentrysum"}

\* str(True), str(False)
StrTrue == <<"T","r","u","e">>

StrFalse == <<"F","a","l","s","e">>

\* self.__default_savepath: the path wrapped in a literal pair of double quotes
default_savepath == <<"\"","c","a","l","c","_","d","a","t","a","/","s","a","v","e","d","_","a","c","t","i","o","n","s",".","j","s","o","n","\"">>

\* another value a user may have stored for savepath
OtherPath == <<"h",".","j","s","o","n">>

\* a lower-case spelling of a flag, which capitalize() turns into str(True)
StrLowerTrue == <<"t","r","u","e">>

\* the values an option of settings.ini holds in the model
Values == {StrTrue, StrFalse, StrLowerTrue, default_savepath, OtherPath}

NoOpts == [o \in {} |-> StrTrue]

\* ConfigParser(): no section, no option
EmptyConfig == [section |-> FALSE, opts |-> NoOpts]

\* The states of settings.ini: no file, a file without the Calculator section,
\* or the section with any subset of the options, each with any value.
ConfigFiles ==
    {[exists |-> FALSE, section |-> FALSE, opts |-> NoOpts],
     [exists |-> TRUE, section |-> FALSE, opts |-> NoOpts]}
    \cup {[exists |-> TRUE, section |-> TRUE, opts |-> f] :
            f \in UNION {[S -> Values] : S \in SUBSET Options}}

\* ConfigParser.read(path): a missing file is skipped silently; the options of
\* the file are set over those already held.
ConfigRead(c, file) ==
    IF ~file.exists THEN c
    ELSE [section |-> c.section \/ file.section,
          opts |-> [o \in DOMAIN c.opts \cup DOMAIN file.opts |->
                      IF o \in DOMAIN file.opts THEN file.opts[o] ELSE c.opts[o]]]

\* ConfigParser.get("Calculator", option)
ConfigGet(c, option) ==
    IF ~c.section THEN [raised |-> "NoSectionError", val |-> <<>>]
    ELSE IF option \notin DOMAIN c.opts THEN [raised |-> "NoOptionError", val |-> <<>>]
    ELSE [raised |-> "none", val |-> c.opts[option]]

\* ConfigParser.add_section / ConfigParser.set
ConfigSet(c, option, value) ==
    [section |-> TRUE,
     opts |-> [o \in DOMAIN c.opts \cup {option} |-> IF o = option THEN value ELSE c.opts[o]]]

\* A slip of __ensureoption: the default is stored whether or not the option exists.
ensureoption_overwrites(c, option, default) ==
    [config |-> ConfigSet(c, option, default), val |-> default]

\* ConfigManager.__ensureoption: the stored value if there is one, else the
\* section and the option are created with the default.  [config, val]
ensureoption(c, option, default) ==
    LET g == ConfigGet(c, option)
    IN  IF g.raised = "none" THEN [config |-> c, val |-> g.val]
        ELSE [config |-> ConfigSet(c, option, default), val |-> default]

\* the default __initconfig gives each required option
DefaultOf(option) == IF option = "savepath" THEN default_savepath ELSE StrTrue

\* ConfigManager.__initconfig: read the file, ensure the three options in the
\* code's order, write the whole configuration back.  [config, file]
initconfig(c, file) ==
    LET c0 == ConfigRead(c, file)
        c1 == ensureoption(c0, "showhistory", StrTrue).config
        c2 == ensureoption(c1, "savepath", default_savepath).config
        c3 == ensureoption(c2, "showentrysum", StrTrue).config
    IN  [config |-> c3,
         file |-> [exists |-> TRUE, section |-> c3.section, opts |-> c3.opts]]

\* ConfigManager.getconfigfield: None when the option is missing, else the
\* value with every double quote removed.  [found, val]
getconfigfield(c, field) ==
    LET g == ConfigGet(c, field)
    IN  IF g.raised # "none" THEN [found |-> FALSE, val |-> <<>>]
        ELSE [found |-> TRUE, val |-> RemoveChar(g.val, "\"")]

\* ------------------------------------------------------------- SaveManager

\* The history file: missing, zero bytes long, non-empty text that is not the
\* JSON document, or the document {"actions": [...]}.
FileMissing == [kind |-> "missing", actions |-> <<>>]

FileEmpty == [kind |-> "empty", actions |-> <<>>]

FileGarbage == [kind |-> "garbage", actions |-> <<>>]

\* json.dump({"actions": actionlist}, f)
JsonDump(actionlist) == [kind |-> "json", actions |-> actionlist]

\* json.load(f)["actions"]: raises on a file that does not hold the document
\* (JSONDecodeError on empty or unparseable text).  [raised, val]
JsonLoadActions(file) ==
    IF file.kind = "json" THEN [raised |-> "none", val |-> file.actions]
    ELSE IF file.kind = "missing" THEN [raised |-> "FileNotFoundError", val |-> <<>>]
    ELSE [raised |-> "JSONDecodeError", val |-> <<>>]

\* SaveManager.__initsaves: a missing file is created empty; a file of length 0
\* gets the empty document; any other file is left as it is.
initsaves(file) ==
    LET f1 == IF file.kind = "missing" THEN FileEmpty ELSE file
    IN  IF f1.kind = "empty" THEN JsonDump(<<>>) ELSE f1

\* the dict {action: result}
Entry(action, result) == [action |-> action, result |-> result]

\* A slip of saveaction: the file is rewritten with the new entry alone.
saveaction_forgets(file, action, result) ==
    [raised |-> "none", file |-> JsonDump(<<Entry(action, result)>>)]

\* SaveManager.saveaction: load the array, append, rewrite.  [raised, file]
saveaction(file, action, result) ==
    LET l == JsonLoadActions(file)
    IN  IF l.raised # "none" THEN [raised |-> l.raised, file |-> file]
        ELSE [raised |-> "none", file |-> JsonDump(Append(l.val, Entry(action, result)))]

\* list[start:] of Python: a negative start counts from the end, and both are
\* clamped to the list
SliceFrom(l, start) ==
    LET s == IF start < 0 THEN (IF Len(l) + start < 0 THEN 0 ELSE Len(l) + start)
             ELSE (IF start > Len(l) THEN Len(l) ELSE start)
    IN  SubSeq(l, s + 1, Len(l))

\* SaveManager.getentries: actionlist[-number:].  [raised, val]
getentries(file, number) ==
    LET l == JsonLoadActions(file)
    IN  IF l.raised # "none" THEN l
        ELSE [raised |-> "none", val |-> SliceFrom(l.val, 0 - number)]

\* A slip of clear: the file is truncated and nothing is written.
clear_truncates(file) == FileEmpty

\* SaveManager.clear: the file is overwritten with the empty document
clear(file) == JsonDump(<<>>)


\* ------------------------------------------------------- CalculatorMethods

\* the keys of self.__actionsigns
K_add == <<"+">>

K_subtract == <<"-">>

K_divide == <<"/">>

K_multiply == <<"*">>

K_sin == <<"s","i","n">>

K_cos == <<"c","o","s">>

K_tan == <<"t","a","n">>

K_sqrt == <<"s","q","r","t">>

K_stop == <<"s","t","o","p">>

K_clear_history == <<"c","l","e","a","r"," ","h","i","s","t","o","r","y">>

ActionKeys == {K_add, K_subtract, K_divide, K_multiply, K_sin, K_cos, K_tan, K_sqrt,
               K_stop, K_clear_history}

\* a numeric result; fn is "num" for a rational and the function's name for the
\* value of sin, cos, tan or sqrt at the rational n/d
Num(r) == [fn |-> "num", n |-> r.n, d |-> r.d]

Fn(name, r) == [fn |-> name, n |-> r.n, d |-> r.d]

Returned(v) == [raised |-> "none", val |-> v]

Raised(exc) == [raised |-> exc, val |-> Num(Rat(0, 1))]

\* __add: args[0] + args[1]; args[1] of a one-element tuple raises IndexError
add(args) ==
    IF Len(args) < 2 THEN Raised("IndexError")
    ELSE Returned(Num(Rat(args[1].n * args[2].d + args[2].n * args[1].d, args[1].d * args[2].d)))

\* __subtract: args[0] - args[1]
subtract(args) ==
    IF Len(args) < 2 THEN Raised("IndexError")
    ELSE Returned(Num(Rat(args[1].n * args[2].d - args[2].n * args[1].d, args[1].d * args[2].d)))

\* __divide: args[0] / args[1]; a zero divisor raises ZeroDivisionError
divide(args) ==
    IF Len(args) < 2 THEN Raised("IndexError")
    ELSE IF args[2].n = 0 THEN Raised("ZeroDivisionError")
    ELSE Returned(Num(Rat(args[1].n * args[2].d, args[1].d * args[2].n)))

\* __multiply: args[0] * args[1]
multiply(args) ==
    IF Len(args) < 2 THEN Raised("IndexError")
    ELSE Returned(Num(Rat(args[1].n * args[2].n, args[1].d * args[2].d)))

\* __sin, __cos, __tan: the function of args[0] degrees; further arguments are ignored
sin(args) == IF Len(args) < 1 THEN Raised("IndexError") ELSE Returned(Fn("sin", args[1]))

cos(args) == IF Len(args) < 1 THEN Raised("IndexError") ELSE Returned(Fn("cos", args[1]))

tan(args) == IF Len(args) < 1 THEN Raised("IndexError") ELSE Returned(Fn("tan", args[1]))

\* __sqrt: math.sqrt(args[0]) raises ValueError (math domain error) below zero
sqrt(args) ==
    IF Len(args) < 1 THEN Raised("IndexError")
    ELSE IF args[1].n < 0 THEN Raised("ValueError")
    ELSE Returned(Fn("sqrt", args[1]))

\* self.__actionsigns[key](*args): 'stop' and 'clear history' are bound to None,
\* and calling None raises TypeError
actionsigns(key, args) ==
    CASE key = K_add -> add(args)
      [] key = K_subtract -> subtract(args)
      [] key = K_divide -> divide(args)
      [] key = K_multiply -> multiply(args)
      [] key = K_sin -> sin(args)
      [] key = K_cos -> cos(args)
      [] key = K_tan -> tan(args)
      [] key = K_sqrt -> sqrt(args)
      [] OTHER -> Raised("TypeError")

\* the one-token spellings that clear the history
ClearWords == {<<"c","l","e","a","r">>, <<"c","l","e","a","r","h","i","s","t","o","r","y">>}

\* The three-token branch as the code has it (lines 246-247): the "0" check
\* comes first and does not look at the action.
Binary(a, op, b) ==
    IF b = <<"0">> THEN Raised("ZeroDivisionError")
    ELSE IF ~float(a).ok \/ ~float(b).ok THEN Raised("ValueError")
    ELSE actionsigns(op, <<float(a).val, float(b).val>>)

\* the two-token branch (line 249)
Unary(op, b) ==
    IF ~float(b).ok THEN Raised("ValueError")
    ELSE actionsigns(op, <<float(b).val>>)

\* The try block of process (lines 243-261) on the lowered, split line: a
\* value, the stop or clear command, or the exception raised.
\* [cmd, raised, val]
Evaluate(actionsplit) ==
    LET n == Len(actionsplit)
        Value(r) == [cmd |-> "value", raised |-> r.raised, val |-> r.val]
    IN  IF /\ n = 3
           /\ ~isalpha(actionsplit[1]) /\ ~isalpha(actionsplit[3])
           /\ actionsplit[2] \in ActionKeys
        THEN Value(Binary(actionsplit[1], actionsplit[2], actionsplit[3]))
        ELSE IF n = 2 /\ actionsplit[1] \in ActionKeys /\ ~isalpha(actionsplit[2])
        THEN Value(Unary(actionsplit[1], actionsplit[2]))
        ELSE IF n = 1
        THEN IF actionsplit[1] = K_stop
             THEN [cmd |-> "stop", raised |-> "none", val |-> Num(Rat(0, 1))]
             ELSE IF strip(lower(actionsplit[1])) \in ClearWords
             THEN [cmd |-> "clear", raised |-> "none", val |-> Num(Rat(0, 1))]
             ELSE Value(Raised("ValueError"))
        ELSE Value(Raised("ValueError"))

\* The except clauses (lines 262-269): ValueError and KeyError are reported as
\* invalid input, ZeroDivisionError as a division by zero; any other exception
\* is not caught and leaves process and the loop of Main.
Classify(e) ==
    IF e.raised = "none" THEN e.cmd
    ELSE IF e.raised \in {"ValueError", "KeyError"} THEN "InvalidInput"
    ELSE IF e.raised = "ZeroDivisionError" THEN "DivisionByZero"
    ELSE "fault"

\* the number of entries process shows and sums
HistoryShown == 5

\* The listing before the prompt (lines 232-238): getentries(5) is called when
\* showhistory capitalizes to str(True); the exception it raises, if any.
Banner(c, file) ==
    LET show == getconfigfield(c, "showhistory")
    IN  IF ~show.found THEN "AttributeError"
        ELSE IF capitalize(show.val) = StrTrue THEN getentries(file, HistoryShown).raised
        ELSE "none"

\* A slip of the handlers: the except clause of ZeroDivisionError does not
\* return, so the result 0.0 of line 242 is saved.
AfterDispatch_falls_through(file, action, kind, val) ==
    IF kind \in {"value", "DivisionByZero"}
    THEN saveaction(file, action, IF kind = "value" THEN val ELSE Num(Rat(0, 1)))
    ELSE IF kind = "clear" THEN [raised |-> "none", file |-> clear(file)]
    ELSE [raised |-> "none", file |-> file]

\* What process does to the history once the line is evaluated: clear() for
\* the clear command (line 256), saveaction for a value (line 271), nothing
\* after stop, a reported error or an escaped exception.  [raised, file]
AfterDispatch(file, action, kind, val) ==
    IF kind = "value" THEN saveaction(file, action, val)
    ELSE IF kind = "clear" THEN [raised |-> "none", file |-> clear(file)]
    ELSE [raised |-> "none", file |-> file]

\* ------------------------------------------------------------------ inputs

Join(a, b) == a \o <<" ">> \o b

FirstOperands == {<<"5">>}

SecondOperands == {<<"2">>, <<"0">>, <<"3","a">>}

MiddleTokens == {K_add, K_subtract, K_multiply, K_divide, K_sin, K_stop, <<"+","+">>}

FirstTokens == {K_sin, K_sqrt, K_add, K_stop, <<"c","l","e","a","r">>}

Arguments == {<<"5">>, <<"-","2">>}

OneToken == {K_stop, <<"c","l","e","a","r">>, <<"c","l","e","a","r","h","i","s","t","o","r","y">>, <<"C","l","e","a","r">>, <<"S","T","O","P">>, <<"f","o","o">>, <<>>, <<"5">>}

OtherLines == {<<"c","l","e","a","r"," ","h","i","s","t","o","r","y">>,
               <<"f","o","o"," ","b","a","r"," ","b","a","z">>, <<"5"," ","+"," ","2"," ","2">>, <<"S","Q","R","T"," ","5">>, <<"5"," ","/"," ","0",".","0">>, <<"5"," "," ","2">>, <<"x"," ","+"," ","2">>, <<"c","o","s"," ","3","a">>}

\* the lines typed at the prompt
Lines ==
    {Join(Join(a, op), b) : a \in FirstOperands, op \in MiddleTokens, b \in SecondOperands}
    \cup {Join(op, b) : op \in FirstTokens, b \in Arguments}
    \cup OneToken \cup OtherLines

\* the states of settings.ini the calculator is started from
StartConfigFiles ==
    {[exists |-> FALSE, section |-> FALSE, opts |-> NoOpts],
     [exists |-> TRUE, section |-> TRUE,
      opts |-> [o \in Options |-> IF o = "savepath" THEN default_savepath
                                  ELSE IF o = "showhistory" THEN StrFalse ELSE StrLowerTrue]]}

\* the states of the history file the calculator is started from
StartSaveFiles == {FileMissing, FileEmpty, FileGarbage, JsonDump(<<>>)}

\* the arguments of the direct saveaction calls
ActionTexts == {<<"5"," ","+"," ","2">>, <<"s","i","n"," ","5">>}

Results == {Num(Rat(7, 1)), Num(Rat(-1, 2))}

NoOutcome ==
    [ran |-> FALSE, line |-> <<>>, stage |-> "none", kind |-> "none", exc |-> "none",
     val |-> Num(Rat(0, 1)), action |-> <<>>, before |-> FileMissing]

NoRet ==
    [op |-> "none", number |-> 0, action |-> <<>>, result |-> Num(Rat(0, 1)),
     raised |-> "none", val |-> <<>>, before |-> FileMissing, wasCleared |-> FALSE]

NoProbe ==
    [done |-> FALSE, option |-> "savepath", default |-> <<>>, before |-> EmptyConfig,
     first |-> [config |-> EmptyConfig, val |-> <<>>],
     second |-> [config |-> EmptyConfig, val |-> <<>>]]

Unknown == [known |-> FALSE, entries |-> <<>>]

Known(entries) == [known |-> TRUE, entries |-> entries]

\* Lines 240-269 on each line of Lines, computed once per line: the lowered
\* line, what the try block gave and how the except clauses classify it.
Dispatched ==
    [line \in Lines |->
        LET action == lower(line)
        IN  [action |-> action, e |-> Evaluate(split(action))]]

\* CalculatorMethods.process on one input line.
\* stage: how far the call got; kind: value, stop, clear, InvalidInput,
\* DivisionByZero, or fault for an exception nothing catches; exc: that
\* exception; file: the history file afterwards.
process(c, file, line) ==
    LET b      == Banner(c, file)
        action == Dispatched[line].action
        e      == Dispatched[line].e
        kind   == Classify(e)
        after  == AfterDispatch(file, action, kind, e.val)
    IN  IF b # "none"
        THEN [stage |-> "banner", kind |-> "fault", exc |-> b, val |-> Num(Rat(0, 1)),
              action |-> action, file |-> file]
        ELSE IF kind = "fault"
        THEN [stage |-> "dispatch", kind |-> "fault", exc |-> e.raised, val |-> e.val,
              action |-> action, file |-> file]
        ELSE IF after.raised # "none"
        THEN [stage |-> "save", kind |-> kind, exc |-> after.raised, val |-> e.val,
              action |-> action, file |-> after.file]
        ELSE [stage |-> "done", kind |-> kind, exc |-> "none", val |-> e.val,
              action |-> action, file |-> after.file]

\* ----------------------------------------------------------------- actions

\* Main, line 279: ConfigManager() builds a parser and runs __initconfig.
ConfigManagerInit ==
    /\ pc = "boot"
    /\ LET r == initconfig(EmptyConfig, cfgFile)
       IN  /\ config' = r.config
           /\ cfgFile' = r.file
    /\ cfgBefore' = cfgFile
    /\ pc' = "configured"
    /\ UNCHANGED <<saveFile, outcome, ret, probe, shadow, cleared>>

\* Main, line 280: SaveManager(configs) resolves the path and runs __initsaves.
SaveManagerInit ==
    /\ pc = "configured"
    /\ getconfigfield(config, "savepath").found
    /\ saveFile' = initsaves(saveFile)
    /\ pc' = "ready"
    /\ ret' = [NoRet EXCEPT !.op = "init"]
    /\ shadow' = IF ~shadow.known /\ saveFile \in {FileMissing, FileEmpty, JsonDump(<<>>)}
                 THEN Known(<<>>)
                 ELSE shadow
    /\ UNCHANGED <<cfgFile, config, outcome, probe, cfgBefore, cleared>>

\* Main, lines 283-285: one turn of the loop, calculator.process() on one line.
Process(line) ==
    /\ pc = "ready"
    /\ \E p \in {process(config, saveFile, line)} :
           /\ (p.stage = "done" /\ p.kind = "value") => Len(saveFile.actions) < MaxHist
           /\ saveFile' = p.file
           /\ outcome' = [ran |-> TRUE, line |-> line, stage |-> p.stage, kind |-> p.kind,
                          exc |-> p.exc, val |-> p.val, action |-> p.action,
                          before |-> saveFile]
           /\ pc' = IF p.stage # "done" THEN "faulted"
                    ELSE IF p.kind = "stop" THEN "stopped"
                    ELSE "ready"
    /\ UNCHANGED <<cfgFile, config, ret, probe, cfgBefore, shadow, cleared>>

\* The program is started again: the files stay, the objects are rebuilt.
Relaunch ==
    /\ pc \in {"configured", "ready", "stopped", "faulted"}
    /\ pc' = "boot"
    /\ config' = EmptyConfig
    /\ outcome' = NoOutcome
    /\ UNCHANGED <<cfgFile, saveFile, ret, probe, cfgBefore, shadow, cleared>>

\* A direct call of SaveManager.saveaction.
SaveActionCall(action, result) ==
    /\ pc = "ready"
    /\ Len(saveFile.actions) < MaxStore
    /\ LET r == saveaction(saveFile, action, result)
       IN  /\ saveFile' = r.file
           /\ ret' = [NoRet EXCEPT !.op = "saveaction", !.action = action,
                                   !.result = result, !.raised = r.raised,
                                   !.before = saveFile, !.wasCleared = cleared]
           /\ shadow' = IF r.raised = "none" /\ shadow.known
                        THEN Known(Append(shadow.entries, Entry(action, result)))
                        ELSE shadow
           /\ cleared' = IF r.raised = "none" THEN FALSE ELSE cleared
    /\ UNCHANGED <<pc, cfgFile, config, outcome, probe, cfgBefore>>

\* A direct call of SaveManager.getentries.
GetEntriesCall(number) ==
    /\ pc = "ready"
    /\ LET r == getentries(saveFile, number)
       IN  ret' = [NoRet EXCEPT !.op = "getentries", !.number = number,
                                !.raised = r.raised, !.val = r.val,
                                !.before = saveFile, !.wasCleared = cleared]
    /\ UNCHANGED <<pc, cfgFile, config, saveFile, outcome, probe, cfgBefore, shadow, cleared>>

\* A direct call of SaveManager.clear.
ClearCall ==
    /\ pc = "ready"
    /\ saveFile' = clear(saveFile)
    /\ ret' = [NoRet EXCEPT !.op = "clear", !.before = saveFile, !.wasCleared = cleared]
    /\ shadow' = Known(<<>>)
    /\ cleared' = TRUE
    /\ UNCHANGED <<pc, cfgFile, config, outcome, probe, cfgBefore>>

\* __ensureoption called twice in a row, with the same option and default, on
\* the parser as it is after line 46 has read settings.ini.
EnsureOptionProbe(option, default) ==
    /\ pc = "boot"
    /\ LET c0 == ConfigRead(EmptyConfig, cfgFile)
           r1 == ensureoption(c0, option, default)
           r2 == ensureoption(r1.config, option, default)
       IN  probe' = [done |-> TRUE, option |-> option, default |-> default,
                     before |-> c0, first |-> r1, second |-> r2]
    /\ UNCHANGED <<pc, cfgFile, config, saveFile, outcome, ret, cfgBefore, shadow, cleared>>

\* ---------------------------------------------------------- specifications

InitCommon ==
    /\ pc = "boot"
    /\ config = EmptyConfig
    /\ cfgBefore = cfgFile
    /\ outcome = NoOutcome
    /\ ret = NoRet
    /\ probe = NoProbe
    /\ shadow = Unknown
    /\ cleared = FALSE

\* The calculator: both stores are built, then the loop reads lines.
Init ==
    /\ cfgFile \in StartConfigFiles
    /\ saveFile \in StartSaveFiles
    /\ InitCommon

Next ==
    \/ ConfigManagerInit
    \/ SaveManagerInit
    \/ \E line \in Lines : Process(line)
    \/ Relaunch

Spec == Init /\ [][Next]_vars

\* The history store under direct calls of its methods.
InitStore ==
    /\ cfgFile \in StartConfigFiles
    /\ saveFile \in StartSaveFiles
    /\ InitCommon

NextStore ==
    \/ ConfigManagerInit
    \/ SaveManagerInit
    \/ \E a \in ActionTexts, r \in Results : SaveActionCall(a, r)
    \/ \E n \in (0 - MaxN)..MaxN : GetEntriesCall(n)
    \/ ClearCall
    \/ Relaunch

SpecStore == InitStore /\ [][NextStore]_vars

\* The configuration store started from every state of settings.ini.
InitConfig ==
    /\ cfgFile \in ConfigFiles
    /\ saveFile = FileMissing
    /\ InitCommon

NextConfig ==
    \/ ConfigManagerInit
    \/ \E o \in Options, d \in Values : EnsureOptionProbe(o, d)
    \/ Relaunch

SpecConfig == InitConfig /\ [][NextConfig]_vars


\* ------------------------------------------------------------------ claims

\* the tokens of the line the last process call read
LastTokens == split(lower(outcome.line))

\* the last process call got as far as evaluating its line
Evaluated == outcome.ran /\ outcome.stage # "banner"

BinaryKeys == {K_add, K_subtract, K_multiply, K_divide}

UnaryKeys == {K_sin, K_cos, K_tan, K_sqrt}

SentinelKeys == {K_stop, K_clear_history}

\* C1: every line the dispatch step evaluates ends in a value, a sentinel
\* command (stop, clear history) or a classified error (InvalidInput,
\* DivisionByZero); no exception escapes the step.
Claim_C1 ==
    Evaluated =>
        /\ outcome.kind \in {"value", "stop", "clear", "InvalidInput", "DivisionByZero"}
        /\ outcome.stage # "dispatch"

\* a op b in exact arithmetic (b # 0 for "/")
Exact(op, a, b) ==
    IF op = K_add THEN Num(Rat(a.n * b.d + b.n * a.d, a.d * b.d))
    ELSE IF op = K_subtract THEN Num(Rat(a.n * b.d - b.n * a.d, a.d * b.d))
    ELSE IF op = K_multiply THEN Num(Rat(a.n * b.n, a.d * b.d))
    ELSE Num(Rat(a.n * b.d, a.d * b.n))

\* C2: a line "a op b" with numeric a and b and op one of + - * / evaluates
\* to the exact value of a op b, except that "/" with the token b = "0" is a
\* DivisionByZero; with b = "0" the operations + - * give their value.
Claim_C2 ==
    (/\ Evaluated
     /\ Len(LastTokens) = 3
     /\ LastTokens[2] \in BinaryKeys
     /\ float(LastTokens[1]).ok /\ float(LastTokens[3]).ok)
    => IF LastTokens[2] = K_divide /\ LastTokens[3] = <<"0">>
       THEN outcome.kind = "DivisionByZero"
       ELSE /\ outcome.kind = "value"
            /\ ~(LastTokens[2] = K_divide /\ float(LastTokens[3]).val.n = 0)
            /\ outcome.val = Exact(LastTokens[2], float(LastTokens[1]).val,
                                   float(LastTokens[3]).val)

\* the last k elements of a sequence, in order
Suffix(l, k) == SubSeq(l, Len(l) - k + 1, Len(l))

\* C3: tail(n) on a history of length L is its suffix of length
\* max(0, min(n, L)), in stored order, for positive, zero and negative n.
Claim_C3 ==
    (ret.op = "getentries" /\ ret.raised = "none")
    => LET L == Len(ret.before.actions)
           m == IF ret.number < L THEN ret.number ELSE L
           k == IF m < 0 THEN 0 ELSE m
       IN  ret.val = Suffix(ret.before.actions, k)

\* C4: a process call that ends in InvalidInput or DivisionByZero leaves the
\* history document exactly as it was before the call.
Thm_C4 ==
    (outcome.ran /\ outcome.kind \in {"InvalidInput", "DivisionByZero"})
    => saveFile = outcome.before

\* a division by zero was reported while the history held an entry
Wit_C4 ==
    /\ outcome.ran /\ outcome.stage = "done"
    /\ outcome.kind = "DivisionByZero"
    /\ Len(outcome.before.actions) >= 1

\* C5: from an empty history on, the document holds exactly the entries
\* appended since, each with its action text and result and in the order of
\* the appends, and building the store again on the file does not change it.
Thm_C5 == shadow.known => saveFile = JsonDump(shadow.entries)

\* the store was built again on a document of two different entries
Wit_C5 ==
    /\ pc = "ready" /\ ret.op = "init"
    /\ shadow.known /\ Len(shadow.entries) >= 2
    /\ shadow.entries[1] # shadow.entries[2]
    /\ saveFile.actions = shadow.entries

\* C6: after clear(), getentries(n) returns the empty list for every n, and
\* the saveaction that follows succeeds and leaves a document of exactly
\* that one entry.
Thm_C6 ==
    /\ cleared => \A n \in (0 - MaxN)..MaxN :
                    getentries(saveFile, n) = [raised |-> "none", val |-> <<>>]
    /\ (ret.op = "getentries" /\ ret.wasCleared) => (ret.raised = "none" /\ ret.val = <<>>)
    /\ (ret.op = "saveaction" /\ ret.wasCleared)
       => /\ ret.raised = "none"
          /\ saveFile = JsonDump(<<Entry(ret.action, ret.result)>>)

\* a saveaction right after a clear() left a one-entry document
Wit_C6 ==
    /\ ret.op = "saveaction" /\ ret.wasCleared /\ ret.raised = "none"
    /\ ret.before = JsonDump(<<>>)
    /\ Len(saveFile.actions) = 1

\* C7: once the store is built, whatever the file held before, the document
\* on disk is the object with the array "actions", and no later saveaction or
\* getentries fails on it.
Claim_C7 ==
    pc = "ready" => (saveFile.kind = "json" /\ ret.raised = "none")

\* C8: a three-token line whose middle token is a unary action or a
\* sentinel, and a two-token line whose first token is a binary action or a
\* sentinel, is InvalidInput: no value, no history entry.
Claim_C8 ==
    (/\ Evaluated
     /\ \/ Len(LastTokens) = 3 /\ LastTokens[2] \in UnaryKeys \cup SentinelKeys
        \/ Len(LastTokens) = 2 /\ LastTokens[1] \in BinaryKeys \cup SentinelKeys)
    => (outcome.kind = "InvalidInput" /\ saveFile = outcome.before)

\* C9: a line that is "clear" or "clearhistory" once letter case and spaces
\* are ignored (so "clear history" too) clears the history; "stop" is the
\* terminal command; every other one-token line is InvalidInput.
Claim_C9 ==
    Evaluated =>
        IF RemoveChar(lower(outcome.line), " ") \in ClearWords
        THEN outcome.kind = "clear" /\ saveFile = JsonDump(<<>>)
        ELSE IF LastTokens = <<K_stop>> THEN outcome.kind = "stop"
        ELSE Len(LastTokens) = 1 => outcome.kind = "InvalidInput"

\* C10: after ConfigManager() the three options exist, in memory and in
\* settings.ini; one that was stored keeps its value and a missing one holds
\* its default.  A second __ensureoption call with the same option and
\* default changes nothing and returns what the first returned.
Thm_C10 ==
    /\ pc = "configured" =>
          /\ cfgFile = [exists |-> TRUE, section |-> TRUE, opts |-> config.opts]
          /\ \A o \in Options :
                /\ ConfigGet(config, o).raised = "none"
                /\ ConfigGet(config, o).val =
                      IF cfgBefore.exists /\ o \in DOMAIN cfgBefore.opts
                      THEN cfgBefore.opts[o] ELSE DefaultOf(o)
    /\ probe.done =>
          /\ probe.second.config = probe.first.config
          /\ probe.second.val = probe.first.val

\* settings.ini held showhistory = False alone; the first __ensureoption call
\* created savepath, and ConfigManager() has run
Wit_C10 ==
    /\ pc = "configured"
    /\ cfgBefore.exists /\ DOMAIN cfgBefore.opts = {"showhistory"}
    /\ cfgBefore.opts["showhistory"] = StrFalse
    /\ probe.done /\ probe.option = "savepath"
    /\ probe.option \notin DOMAIN probe.before.opts
    /\ probe.first.config # probe.before

=============================================================================
